---- MODULE Spec2Model ----
(***************************************************************************)
(* UiBuilder of sickle_ui_scaffold (src/crates/sickle_ui_scaffold/src/     *)
(* ui_builder.rs): a fluent builder over a deferred command queue.         *)
(*                                                                         *)
(* The builder pairs the command queue (Commands) with a context: UiRoot   *)
(* or an Entity handle.  Every operation either appends commands to the    *)
(* queue or hands out an accessor; the queue is applied to the world by    *)
(* the surrounding runtime (Flush).  The live builders form a borrow       *)
(* chain: each builder reborrows the Commands of the one it was obtained   *)
(* from, so only the innermost builder can be used until it is dropped.    *)
(***************************************************************************)
EXTENDS Integers, Sequences, FiniteSets, TLC

VARIABLES
    nextEntity,   \* next handle the entity allocator hands out
    reserved,     \* handles allocated by a spawn, not yet materialized
    live,         \* handles materialized in the world
    comps,        \* comps[h]: component kind -> value, of entity h
    parent,       \* parent[h]: {} or {p}, the Parent component of h
    children,     \* children[h]: the Children component of h, in order
    queue,        \* the deferred command queue, oldest first
    appended,     \* number of commands appended so far (serial numbers)
    applied,      \* serial numbers of the applied commands, in applied order
    calls,        \* the appending builder calls of the latest batch
    spawnedUnder, \* spawnedUnder[c]: {} or {h}, the builder handle c was spawned on
    stack,        \* the live builders, outermost first
    last          \* the most recent call and its outcome

vars == <<nextEntity, reserved, live, comps, parent, children, queue,
          appended, applied, calls, spawnedUnder, stack, last>>

world == <<nextEntity, reserved, live, comps, parent, children>>

---------------------------------------------------------------------------
(* Bounds of the model *)

MaxEntities == 2
MaxCommands == 4

---------------------------------------------------------------------------
(* Values *)

\* Entity::PLACEHOLDER: index u32::MAX (all bits set), never allocated
PLACEHOLDER == -1

Handles == 1..MaxEntities

UiRoot == [kind |-> "UiRoot"]

EntityCtx(h) == [kind |-> "Entity", id |-> h]

\* the contexts a builder is asked for: the root, a handle the allocator has
\* handed out, or a handle it never hands out
Contexts ==
    {UiRoot} \cup {EntityCtx(h) : h \in (1..(nextEntity - 1)) \cup {PLACEHOLDER}}

\* the handles an observer is pointed at: those the allocator has handed out
Targets == 1..(nextEntity - 1)

EmptyBundle == <<>>

BundleA == ("a" :> 1)

BundleB == ("a" :> 2 @@ "b" :> 1)

Bundles == {BundleA, BundleB}

Labels == {"child"}

Systems == {"on_event"}

\* Observer::new(system): an observer with no target restriction
ObserverNew(system) == [system |-> system, entities |-> {}]

\* .with_entity(target): restrict the observer to events targeted at target
WithEntity(observer, target) ==
    [observer EXCEPT !.entities = @ \cup {target}]

\* faulty variant: a restricted observer is a component kind of its own
ObserverBundlePerScope(observer) ==
    IF observer.entities = {} THEN ("Observer" :> observer)
    ELSE ("ScopedObserver" :> observer)

ObserverBundle(observer) == ("Observer" :> observer)

NameBundle(label) == ("Name" :> label)

---------------------------------------------------------------------------
(* The builder and the queue *)

\* Commands::ui_builder(context): a builder over the same queue
ui_builder(context) == [context |-> context]

context(b) == b.context

id(b) == context(b).id

Top == stack[Len(stack)]

\* faulty variant: only materialized handles are accepted
ContainsLive(h) == h \in live

\* Commands::entity(entity) hands out EntityCommands only for a handle the
\* allocator knows (materialized or reserved); otherwise it panics
Contains(h) == h \in live \/ h \in reserved

Running == last.outcome # "panic"

Enqueue(q, c) == Append(q, c)

InsertCmd(sn, entity, bundle) ==
    [type |-> "Insert", sn |-> sn, entity |-> entity, bundle |-> bundle]

PushChildrenCmd(sn, p, kids) ==
    [type |-> "PushChildren", sn |-> sn, entity |-> p, children |-> kids]

ObserveCmd(sn, entity, system) ==
    [type |-> "Observe", sn |-> sn, entity |-> entity, system |-> system]

NamedCmd(sn, entity, label) ==
    [type |-> "Named", sn |-> sn, entity |-> entity, label |-> label]

PendingObservers(q) ==
    Cardinality({i \in 1..Len(q) : q[i].type = "Observe"})

CanAllocate == nextEntity + PendingObservers(queue) <= MaxEntities

CanAppend(n) == appended + n <= MaxCommands

Call(op, outcome, self, ret) ==
    [op |-> op, outcome |-> outcome, self |-> self, ret |-> ret,
     again |-> FALSE]

\* no builder call is the most recent event
Idle == Call("none", "ok", UiRoot, UiRoot)

Logged(op, self, arg, ret) ==
    [op |-> op, self |-> self, arg |-> arg, ret |-> ret]

\* the calls of the batch being built: the log of an applied batch is kept
\* until the next builder is constructed
Batch == IF queue = <<>> THEN <<>> ELSE calls

\* faulty variant: the reserved handle is created without the bundle
CommandsSpawnEmpty(q, sn, new, bundle) ==
    Enqueue(q, InsertCmd(sn, new, EmptyBundle))

\* Commands::spawn(bundle): the creation command of the reserved handle
CommandsSpawn(q, sn, new, bundle) ==
    Enqueue(q, InsertCmd(sn, new, bundle))

\* faulty variant: the child is spawned from the queue directly, never linked
WithChildrenSpawnUnlinked(q, sn, p, new, bundle) ==
    CommandsSpawn(q, sn, new, bundle)

\* faulty variant: the link is made the wrong way round
WithChildrenSpawnSwapped(q, sn, p, new, bundle) ==
    Enqueue(CommandsSpawn(q, sn, new, bundle),
            PushChildrenCmd(sn + 1, new, <<p>>))

\* faulty variant: the link is queued ahead of the creation command
WithChildrenSpawnLinkFirst(q, sn, p, new, bundle) ==
    CommandsSpawn(Enqueue(q, PushChildrenCmd(sn, p, <<new>>)),
                  sn + 1, new, bundle)

\* EntityCommands::with_children(|parent| parent.spawn(bundle)): the child's
\* creation command, then the command linking the spawned children to p
WithChildrenSpawn(q, sn, p, new, bundle) ==
    Enqueue(CommandsSpawn(q, sn, new, bundle),
            PushChildrenCmd(sn + 1, p, <<new>>))

\* faulty variant: the insert command goes to the front of the queue
BuilderInsertFront(q, sn, b, bundle) ==
    <<InsertCmd(sn, id(b), bundle)>> \o q

\* self.entity_commands().insert(bundle)
BuilderInsert(q, sn, b, bundle) ==
    Enqueue(q, InsertCmd(sn, id(b), bundle))

\* EntityCommandsNamedExt::named(name)
EntityNamed(q, sn, entity, label) ==
    Enqueue(q, NamedCmd(sn, entity, label))

\* faulty variant: the observe command takes the place of the newest queued command
BuilderObserveReplace(q, sn, b, system) ==
    IF q = <<>> THEN Enqueue(q, ObserveCmd(sn, id(b), system))
    ELSE [q EXCEPT ![Len(q)] = ObserveCmd(sn, id(b), system)]

\* self.entity_commands().observe(system)
BuilderObserve(q, sn, b, system) ==
    Enqueue(q, ObserveCmd(sn, id(b), system))

\* faulty variant: the chaining operations hand back a builder bound to no entity
SelfAfterRebound(b) == ui_builder(EntityCtx(PLACEHOLDER))

\* the operations on &mut self return self
SelfAfter(b) == b

ReplaceTop(s, b) == [s EXCEPT ![Len(s)] = b]

---------------------------------------------------------------------------
(* Checked styling *)

StyleRequiredKinds == {"a"}

\* faulty variant: the checked accessor validates nothing
StyleCheckNone(h) == TRUE

\* UiStyleExt::style(entity): the checked accessor needs the companion
\* components on the handle at call time
StyleCheck(h) == h \in live /\ StyleRequiredKinds \subseteq DOMAIN comps[h]

\* UiStyleUncheckedExt::style_unchecked(entity): no validation
StyleUncheckedCheck(h) == TRUE

---------------------------------------------------------------------------
(* Applying the queue *)

World0 ==
    [next |-> nextEntity, live |-> live \cup reserved, comps |-> comps,
     parent |-> parent, children |-> children, applied |-> applied,
     failed |-> FALSE]

\* faulty variant: components already on the entity are kept
ApplyInsertKeep(w, entity, bundle) ==
    IF entity \in w.live
    THEN [w EXCEPT !.comps[entity] = @ @@ bundle]
    ELSE [w EXCEPT !.failed = TRUE]

\* the insert command: the bundle's components overwrite those of the entity
ApplyInsert(w, entity, bundle) ==
    IF entity \in w.live
    THEN [w EXCEPT !.comps[entity] = bundle @@ @]
    ELSE [w EXCEPT !.failed = TRUE]

RECURSIVE LinkAll(_, _, _)
LinkAll(w, p, kids) ==
    IF kids = <<>> THEN w
    ELSE LinkAll([w EXCEPT !.parent[Head(kids)] = {p},
                           !.children[p] = Append(@, Head(kids))],
                 p, Tail(kids))

ApplyPushChildren(w, p, kids) ==
    IF p \in w.live THEN LinkAll(w, p, kids) ELSE [w EXCEPT !.failed = TRUE]

\* faulty variant: the observer is put on the watched entity itself
ApplyObserveOnSelf(w, entity, system) ==
    IF entity \in w.live
    THEN [w EXCEPT !.comps[entity] =
                       ObserverBundle(WithEntity(ObserverNew(system), entity)) @@ @]
    ELSE w

\* EntityWorldMut::observe: a new entity carrying the observer, watching
\* the entity; nothing happens when the entity is missing
ApplyObserve(w, entity, system) ==
    IF entity \in w.live
    THEN [w EXCEPT !.next = @ + 1,
                   !.live = @ \cup {w.next},
                   !.comps[w.next] =
                       ObserverBundle(WithEntity(ObserverNew(system), entity))]
    ELSE w

ApplyNamed(w, entity, label) == ApplyInsert(w, entity, NameBundle(label))

ApplyCommand(w, c) ==
    LET w1 == CASE c.type = "Insert" -> ApplyInsert(w, c.entity, c.bundle)
                [] c.type = "PushChildren" ->
                       ApplyPushChildren(w, c.entity, c.children)
                [] c.type = "Observe" -> ApplyObserve(w, c.entity, c.system)
                [] c.type = "Named" -> ApplyNamed(w, c.entity, c.label)
    IN [w1 EXCEPT !.applied = Append(@, c.sn)]

RECURSIVE ApplyAll(_, _)
ApplyAll(w, q) ==
    IF q = <<>> \/ w.failed THEN w
    ELSE ApplyAll(ApplyCommand(w, Head(q)), Tail(q))

---------------------------------------------------------------------------
Init ==
    /\ nextEntity = 1
    /\ reserved = {}
    /\ live = {}
    /\ comps = [h \in Handles |-> EmptyBundle]
    /\ parent = [h \in Handles |-> {}]
    /\ children = [h \in Handles |-> <<>>]
    /\ queue = <<>>
    /\ appended = 0
    /\ applied = <<>>
    /\ calls = <<>>
    /\ spawnedUnder = [h \in Handles |-> {}]
    /\ stack = <<>>
    /\ last = Idle

\* commands.ui_builder(context): the entry point, on a queue no builder holds
UiBuilderNew(ctx) ==
    /\ Running
    /\ stack = <<>>
    /\ stack' = <<ui_builder(ctx)>>
    /\ calls' = Batch
    /\ last' = Idle
    /\ UNCHANGED <<world, queue, appended, applied, spawnedUnder>>

\* the innermost builder goes out of scope and releases its borrow
DropBuilder ==
    /\ Running
    /\ stack # <<>>
    /\ stack' = SubSeq(stack, 1, Len(stack) - 1)
    /\ last' = Idle
    /\ UNCHANGED <<world, queue, appended, applied, calls, spawnedUnder>>

OnRoot == Running /\ stack # <<>> /\ context(Top) = UiRoot

OnEntity == Running /\ stack # <<>> /\ context(Top).kind = "Entity"

\* Commands::entity panics for a handle that does not exist
EntityPanics(op) ==
    /\ ~Contains(id(Top))
    /\ last' = Call(op, "panic", context(Top), context(Top))
    /\ UNCHANGED <<world, queue, appended, applied, calls, spawnedUnder, stack>>

\* faulty variant: new_entity keeps the value it was initialized with
SpawnedBuilderPlaceholder(self, new) == ui_builder(EntityCtx(PLACEHOLDER))

\* self.commands().ui_builder(new_entity): the builder a spawn returns
SpawnedBuilder(self, new) == ui_builder(EntityCtx(new))

\* UiBuilder<UiRoot>::spawn
RootSpawn(bundle) ==
    /\ OnRoot
    /\ CanAllocate /\ CanAppend(1)
    /\ LET new == nextEntity
           ret == SpawnedBuilder(Top, new)
       IN /\ nextEntity' = nextEntity + 1
          /\ reserved' = reserved \cup {new}
          /\ queue' = CommandsSpawn(queue, appended + 1, new, bundle)
          /\ appended' = appended + 1
          /\ stack' = Append(stack, ret)
          /\ calls' = Append(calls,
                 Logged("root_spawn", UiRoot, bundle, context(ret)))
          /\ last' = Idle
    /\ UNCHANGED <<live, comps, parent, children, applied, spawnedUnder>>

\* UiBuilder<Entity>::spawn
ChildSpawn(bundle) ==
    /\ OnEntity
    /\ \/ /\ Contains(id(Top))
          /\ CanAllocate /\ CanAppend(2)
          /\ LET new == nextEntity
                 ret == SpawnedBuilder(Top, new)
             IN /\ nextEntity' = nextEntity + 1
                /\ reserved' = reserved \cup {new}
                /\ queue' = WithChildrenSpawn(queue, appended + 1,
                                              id(Top), new, bundle)
                /\ appended' = appended + 2
                /\ stack' = Append(stack, ret)
                /\ calls' = Append(calls,
                       Logged("spawn", context(Top), bundle, context(ret)))
                /\ spawnedUnder' = [spawnedUnder EXCEPT ![new] = {id(Top)}]
                /\ last' = Idle
          /\ UNCHANGED <<live, comps, parent, children, applied>>
       \/ EntityPanics("spawn")

\* the shared shape of the operations that append one command and return self
Appends(op, arg, q) ==
    /\ Contains(id(Top))
    /\ CanAppend(1)
    /\ queue' = q
    /\ appended' = appended + 1
    /\ stack' = ReplaceTop(stack, SelfAfter(Top))
    /\ calls' = Append(calls,
           Logged(op, context(Top), arg, context(SelfAfter(Top))))
    /\ last' = Idle
    /\ UNCHANGED <<world, applied, spawnedUnder>>

\* faulty variant: the bundle is written to the entity in the call itself
InsertImmediate(bundle) ==
    /\ OnEntity
    /\ id(Top) \in live
    /\ comps' = [comps EXCEPT ![id(Top)] = bundle @@ @]
    /\ last' = Idle
    /\ UNCHANGED <<nextEntity, reserved, live, parent, children, queue,
                   appended, applied, calls, spawnedUnder, stack>>

\* UiBuilder<Entity>::insert
Insert(bundle) ==
    /\ OnEntity
    /\ \/ Appends("insert", bundle,
                  BuilderInsert(queue, appended + 1, Top, bundle))
       \/ EntityPanics("insert")

\* UiBuilder<Entity>::named
Named(label) ==
    /\ OnEntity
    /\ \/ Appends("named", label,
                  EntityNamed(queue, appended + 1, id(Top), label))
       \/ EntityPanics("named")

\* UiBuilder<Entity>::observe
Observe(system) ==
    /\ OnEntity
    /\ \/ /\ CanAllocate
          /\ Appends("observe", system,
                     BuilderObserve(queue, appended + 1, Top, system))
       \/ EntityPanics("observe")

\* faulty variant: the listening handle and the target are exchanged
ObserveTargetInsertSwapped(q, sn, b, target, system) ==
    BuilderInsert(q, sn, ui_builder(EntityCtx(target)),
                  ObserverBundle(WithEntity(ObserverNew(system), id(b))))

\* self.insert(Observer::new(system).with_entity(target))
ObserveTargetInsert(q, sn, b, target, system) ==
    BuilderInsert(q, sn, b,
                  ObserverBundle(WithEntity(ObserverNew(system), target)))

\* UiBuilder<Entity>::observe_target
ObserveTarget(target, system) ==
    /\ OnEntity
    /\ \/ Appends("observe_target", target,
                  ObserveTargetInsert(queue, appended + 1, Top, target, system))
       \/ EntityPanics("observe_target")

\* faulty variant: the observer is restricted to the handle it is stored on
ObserveGlobalInsertScoped(q, sn, b, system) ==
    BuilderInsert(q, sn, b,
                  ObserverBundle(WithEntity(ObserverNew(system), id(b))))

\* self.insert(Observer::new(system))
ObserveGlobalInsert(q, sn, b, system) ==
    BuilderInsert(q, sn, b, ObserverBundle(ObserverNew(system)))

\* UiBuilder<Entity>::observe_global
ObserveGlobal(system) ==
    /\ OnEntity
    /\ \/ Appends("observe_global", system,
                  ObserveGlobalInsert(queue, appended + 1, Top, system))
       \/ EntityPanics("observe_global")

\* the runtime applies the queue, in order, once no builder borrows it
Flush ==
    /\ Running
    /\ stack = <<>>
    /\ LET w == ApplyAll(World0, queue)
       IN /\ nextEntity' = w.next
          /\ live' = w.live
          /\ comps' = w.comps
          /\ parent' = w.parent
          /\ children' = w.children
          /\ applied' = w.applied
          /\ last' = IF w.failed THEN Call("flush", "panic", UiRoot, UiRoot)
                     ELSE Idle
    /\ reserved' = {}
    /\ queue' = <<>>
    /\ UNCHANGED <<appended, calls, spawnedUnder, stack>>

\* UiBuilder<Entity>::id
Id ==
    /\ OnEntity
    /\ last' = Call("id", "ok", context(Top), EntityCtx(id(Top)))
    /\ UNCHANGED <<world, queue, appended, applied, calls, spawnedUnder, stack>>

\* UiBuilder<Entity>::entity_commands
EntityCommands ==
    /\ OnEntity
    /\ \/ /\ Contains(id(Top))
          /\ last' = Call("entity_commands", "ok", context(Top),
                          EntityCtx(id(Top)))
          /\ UNCHANGED <<world, queue, appended, applied, calls,
                         spawnedUnder, stack>>
       \/ EntityPanics("entity_commands")

\* UiBuilder<Entity>::style
Style ==
    /\ OnEntity
    /\ last' = [Call("style",
                     IF StyleCheck(id(Top)) THEN "ok"
                     ELSE "invariant_violation",
                     context(Top), EntityCtx(id(Top)))
                EXCEPT !.again = (last.op = "style")]
    /\ UNCHANGED <<world, queue, appended, applied, calls, spawnedUnder, stack>>

\* faulty variant: obtaining the accessor already queues a command
StyleUncheckedEager ==
    /\ OnEntity
    /\ CanAppend(1)
    /\ queue' = BuilderInsert(queue, appended + 1, Top, EmptyBundle)
    /\ appended' = appended + 1
    /\ last' = Call("style_unchecked", "ok", context(Top), EntityCtx(id(Top)))
    /\ UNCHANGED <<world, applied, calls, spawnedUnder, stack>>

\* UiBuilder<Entity>::style_unchecked
StyleUnchecked ==
    /\ OnEntity
    /\ last' = Call("style_unchecked",
                    IF StyleUncheckedCheck(id(Top)) THEN "ok"
                    ELSE "invariant_violation",
                    context(Top), EntityCtx(id(Top)))
    /\ UNCHANGED <<world, queue, appended, applied, calls, spawnedUnder, stack>>

\* UiBuilder::context: a shared reference to the context
Context ==
    /\ Running
    /\ stack # <<>>
    /\ last' = Call("context", "ok", context(Top), context(Top))
    /\ UNCHANGED <<world, queue, appended, applied, calls, spawnedUnder, stack>>

\* UiBuilder::commands: the builder's Commands, reborrowed
Commands ==
    /\ Running
    /\ stack # <<>>
    /\ last' = Call("commands", "ok", context(Top), context(Top))
    /\ UNCHANGED <<world, queue, appended, applied, calls, spawnedUnder, stack>>

\* the operations that construct builders, append commands or apply the queue
Next ==
    \/ \E ctx \in Contexts : UiBuilderNew(ctx)
    \/ DropBuilder
    \/ \E bundle \in Bundles : RootSpawn(bundle)
    \/ \E bundle \in Bundles : ChildSpawn(bundle)
    \/ \E bundle \in Bundles : Insert(bundle)
    \/ \E label \in Labels : Named(label)
    \/ \E system \in Systems : Observe(system)
    \/ \E target \in Targets, system \in Systems : ObserveTarget(target, system)
    \/ \E system \in Systems : ObserveGlobal(system)
    \/ Flush

Spec == Init /\ [][Next]_vars

\* the accessors of the builder, which append nothing
Access ==
    \/ Id
    \/ EntityCommands
    \/ Style
    \/ StyleUnchecked

NextAll == Next \/ Access

SpecAll == Init /\ [][NextAll]_vars

AccessorOps ==
    {"context", "commands", "id", "entity_commands", "style", "style_unchecked"}

\* the value an accessor handed out is in use; it borrows the builder
AccessorHeld == last.op \in AccessorOps /\ last.outcome # "panic"

Free == ~AccessorHeld

\* the value an accessor handed out goes out of use
AccessorDropped ==
    /\ AccessorHeld
    /\ last' = Idle
    /\ UNCHANGED <<world, queue, appended, applied, calls, spawnedUnder, stack>>

\* every operation of the builder, the accessors of any builder included; a
\* builder is used again only once the value its accessor handed out is gone
NextAccess ==
    \/ \E ctx \in Contexts : Free /\ UiBuilderNew(ctx)
    \/ Free /\ DropBuilder
    \/ \E bundle \in Bundles : Free /\ RootSpawn(bundle)
    \/ \E bundle \in Bundles : Free /\ ChildSpawn(bundle)
    \/ \E bundle \in Bundles : Free /\ Insert(bundle)
    \/ \E label \in Labels : Free /\ Named(label)
    \/ \E system \in Systems : Free /\ Observe(system)
    \/ \E target \in Targets, system \in Systems :
           Free /\ ObserveTarget(target, system)
    \/ \E system \in Systems : Free /\ ObserveGlobal(system)
    \/ Free /\ Flush
    \/ Free /\ Context
    \/ Free /\ Commands
    \/ Free /\ Id
    \/ Free /\ EntityCommands
    \/ Free /\ Style
    \/ Free /\ StyleUnchecked
    \/ AccessorDropped

SpecAccess == Init /\ [][NextAccess]_vars

---------------------------------------------------------------------------
(* Properties *)

Last(s) == s[Len(s)]

InSeq(x, s) == \E i \in DOMAIN s : s[i] = x

Max(S) == CHOOSE x \in S : \A y \in S : y <= x

\* the step is a flush that applies a non-empty queue
IsFlush == queue # <<>> /\ queue' = <<>>

\* the step is an appending builder call; Last(calls') describes it
IsCall == calls' # calls /\ calls' # <<>>

\* the batch in calls has been applied
Flushed == queue = <<>> /\ calls # <<>>

CmdCount(call) == IF call.op = "spawn" THEN 2 ELSE 1

RECURSIVE CmdTotal(_)
CmdTotal(cs) == IF cs = <<>> THEN 0 ELSE CmdCount(Head(cs)) + CmdTotal(Tail(cs))

DataKinds == {"a", "b"}

\* C1: every entity spawned through Builder<Entity(H)>.spawn is, once it is
\* materialized, a child of H (Parent on the child, listed in H's Children);
\* until then it is only reserved, with both its creation command and its
\* parent-link command still pending.  No state has the child materialized
\* and not linked.
C1_ChildLinkedToParent ==
    \A c \in Handles : \A h \in spawnedUnder[c] :
        /\ c # h
        /\ IF c \in live
           THEN parent[c] = {h} /\ InSeq(c, children[h])
           ELSE /\ c \in reserved
                /\ \E i \in DOMAIN queue :
                       queue[i].type = "Insert" /\ queue[i].entity = c
                /\ \E i \in DOMAIN queue :
                       /\ queue[i].type = "PushChildren"
                       /\ queue[i].entity = h
                       /\ queue[i].children = <<c>>

C1_Witness ==
    \E c \in Handles : \E h \in spawnedUnder[c] :
        c \in live /\ h \in live /\ parent[c] = {h} /\ children[h] = <<c>>

\* C2: Builder<Root>.spawn(C) appends the creation command of a fresh handle
\* and returns a builder bound to that handle; when it is the only call of the
\* batch, the flush adds exactly that one entity, with components C and no
\* parent.
C2_RootSpawnOneEntity ==
    [][/\ (IsCall /\ Last(calls').op = "root_spawn") =>
              LET c == Last(calls')
              IN /\ c.ret.kind = "Entity"
                 /\ c.ret.id \notin live \cup reserved
                 /\ c.ret.id \in reserved'
                 /\ stack' = Append(stack, ui_builder(c.ret))
                 /\ Len(queue') = Len(queue) + 1
                 /\ Last(queue').type = "Insert"
                 /\ Last(queue').entity = c.ret.id
                 /\ Last(queue').bundle = c.arg
       /\ (IsFlush /\ Len(calls) = 1 /\ calls[1].op = "root_spawn") =>
              LET e == calls[1].ret.id
              IN /\ e \notin live
                 /\ live' = live \cup {e}
                 /\ comps'[e] = calls[1].arg
                 /\ parent'[e] = {}
                 /\ \A h \in live : comps'[h] = comps[h]
      ]_vars

C2_Witness ==
    /\ Flushed
    /\ Len(calls) = 1
    /\ calls[1].op = "root_spawn"
    /\ calls[1].arg = BundleB
    /\ calls[1].ret.id \in live
    /\ comps[calls[1].ret.id] = BundleB
    /\ parent[calls[1].ret.id] = {}

\* the commands a call appends sit in the queue from position off + 1
CallAt(call, off) ==
    LET c == queue[off + 1]
    IN CASE call.op = "root_spawn" ->
                c.type = "Insert" /\ c.entity = call.ret.id
         [] call.op = "spawn" ->
                /\ c.type = "Insert" /\ c.entity = call.ret.id
                /\ queue[off + 2].type = "PushChildren"
                /\ queue[off + 2].entity = call.self.id
         [] call.op \in {"insert", "observe_target", "observe_global"} ->
                c.type = "Insert" /\ c.entity = call.self.id
         [] call.op = "named" ->
                c.type = "Named" /\ c.entity = call.self.id
         [] call.op = "observe" ->
                c.type = "Observe" /\ c.entity = call.self.id

\* C3: the queue holds the commands of the batch's calls in call order,
\* whichever builders made them; serial numbers grow along the queue, and the
\* applied commands are exactly the earlier serial numbers, in append order.
C3_AppliedInAppendOrder ==
    /\ \A i \in DOMAIN applied : applied[i] = i
    /\ \A i \in DOMAIN queue : queue[i].sn = Len(applied) + i
    /\ queue # <<>> =>
           /\ Len(queue) = CmdTotal(calls)
           /\ \A i \in DOMAIN calls :
                  CallAt(calls[i], CmdTotal(SubSeq(calls, 1, i - 1)))

C3_Witness ==
    /\ Flushed
    /\ Len(calls) = 3
    /\ calls[1].self = UiRoot
    /\ calls[2].self = calls[1].ret
    /\ calls[3].self = UiRoot
    /\ applied = <<1, 2, 3>>

\* C4: when a batch is applied, each data kind that insert calls of the batch
\* put on a handle holds the value of the last of those inserts in append
\* order (a kind inserted once holds that one value).
C4_LastInsertWins ==
    [][IsFlush =>
           \A h \in Handles : \A k \in DataKinds :
               LET I == {i \in DOMAIN calls :
                             /\ calls[i].op = "insert"
                             /\ calls[i].self = EntityCtx(h)
                             /\ k \in DOMAIN calls[i].arg}
               IN I # {} =>
                      /\ k \in DOMAIN comps'[h]
                      /\ comps'[h][k] = calls[Max(I)].arg[k]
      ]_vars

C4_Witness ==
    /\ Flushed
    /\ \E i \in DOMAIN calls : \E j \in DOMAIN calls :
           /\ i < j
           /\ calls[i].op = "insert" /\ calls[j].op = "insert"
           /\ calls[i].self = calls[j].self
           /\ calls[i].arg = BundleB /\ calls[j].arg = BundleA
           /\ comps[calls[i].self.id] = ("a" :> 1 @@ "b" :> 1)

\* C5: after root.spawn(A) -> b1 (e1), b1.spawn(B) -> b2 (e2), b2.named(l)
\* and a flush: e1 holds exactly A, e2 holds B plus the label l, e2's parent
\* is e1, e1 # e2, and e1 carries no label.
C5_SpawnChildNamed ==
    (/\ Flushed
     /\ Len(calls) = 3
     /\ calls[1].op = "root_spawn"
     /\ calls[2].op = "spawn" /\ calls[2].self = calls[1].ret
     /\ calls[3].op = "named" /\ calls[3].self = calls[2].ret)
    => LET e1 == calls[1].ret.id
           e2 == calls[2].ret.id
       IN /\ e1 # e2
          /\ {e1, e2} \subseteq live
          /\ comps[e1] = calls[1].arg
          /\ comps[e2] = calls[2].arg @@ NameBundle(calls[3].arg)
          /\ parent[e2] = {e1}
          /\ parent[e1] = {}
          /\ "Name" \notin DOMAIN comps[e1]

C5_Witness ==
    /\ Flushed
    /\ Len(calls) = 3
    /\ calls[1].op = "root_spawn" /\ calls[1].arg = BundleA
    /\ calls[2].op = "spawn" /\ calls[2].arg = BundleB
    /\ calls[2].self = calls[1].ret
    /\ calls[3].op = "named" /\ calls[3].arg = "child"
    /\ calls[3].self = calls[2].ret
    /\ comps[calls[2].ret.id]["Name"] = "child"

ChainOps == {"insert", "named", "observe", "observe_target", "observe_global"}

\* C6: insert, named, observe, observe_target and observe_global leave the
\* builder they are called on in place and bound to the same handle: id() of
\* the innermost builder is the same before and after each of them, and the
\* builder they return is that builder.
C6_IdUnchangedByChainedCalls ==
    [][/\ (IsCall /\ Last(calls').op \in ChainOps) =>
           /\ Len(stack') = Len(stack)
           /\ id(stack'[Len(stack')]) = id(Top)
           /\ Last(calls').ret = context(Top)
           /\ Last(calls').self = context(Top)
       /\ (last'.outcome = "panic" /\ last'.op \in ChainOps) =>
              stack' = stack /\ last'.self = context(Top)
      ]_vars

C6_Witness ==
    /\ queue # <<>>
    /\ Len(calls) = 4
    /\ calls[2].op = "insert"
    /\ calls[3].op = "observe_target"
    /\ calls[4].op = "named"
    /\ calls[2].self = calls[3].self /\ calls[3].self = calls[4].self
    /\ stack # <<>>
    /\ context(Top) = calls[4].self

\* the observer stored on o is triggered by events targeted at t
Listens(o, t) ==
    /\ "Observer" \in DOMAIN comps[o]
    /\ \/ comps[o]["Observer"].entities = {}
       \/ t \in comps[o]["Observer"].entities

ObserverInserts == {"observe_target", "observe_global"}

Serials(q) == [i \in DOMAIN q |-> q[i].sn]

IsPrefix(s, t) == Len(s) <= Len(t) /\ SubSeq(t, 1, Len(s)) = s

\* C8: every serial number handed out is either pending in the queue or
\* applied, never both and never twice; a flush applies exactly the pending
\* commands, each once, and empties the queue; every other step leaves the
\* applied commands alone and keeps the pending ones as a prefix of the queue.
C8_AppliedExactlyOnce ==
    [][/\ LET all == applied' \o Serials(queue')
          IN /\ Len(all) = appended'
             /\ {all[i] : i \in DOMAIN all} = 1..appended'
       /\ IF IsFlush
          THEN applied' = applied \o Serials(queue)
          ELSE applied' = applied /\ IsPrefix(queue, queue')
      ]_vars

C8_Witness ==
    /\ Flushed
    /\ Len(applied) > CmdTotal(calls)
    /\ Len(applied) = appended
    /\ \E i \in DOMAIN calls : calls[i].op = "observe"

\* the handle carries no component
Unpopulated(h) == h \notin live \/ DOMAIN comps[h] = {}

EntityOps ==
    {"spawn", "insert", "named", "observe", "observe_target",
     "observe_global", "entity_commands"}

\* C10 as stated: no append-time operation other than checked styling fails,
\* whatever the handle.
C10_AppendNeverFails ==
    last.op \in EntityOps \cup {"root_spawn"} => last.outcome = "ok"

\* C10, amended: an append-time operation fails only on Builder<Entity(H)>
\* and only when H is neither materialized nor reserved at the call; every
\* call that appended was made on the root or on a handle that exists.
C10_FailsOnlyOnMissingHandle ==
    /\ (last.outcome = "panic" /\ last.op # "flush") =>
           /\ last.op \in EntityOps
           /\ last.self.kind = "Entity"
           /\ last.self.id \notin live \cup reserved
    /\ (last.op = "entity_commands" /\ last.outcome = "ok") =>
           last.self.id \in live \cup reserved
    /\ \A i \in DOMAIN calls :
           calls[i].op # "root_spawn" =>
               calls[i].self.id \in live \cup reserved

C10_Witness ==
    /\ last.op = "insert"
    /\ last.outcome = "panic"
    /\ last.self = EntityCtx(PLACEHOLDER)
    /\ queue # <<>>

\* position i of the queue holds the creation command of a child-spawned
\* handle: the first command the queue holds for it
IsChildCreation(i) ==
    /\ queue[i].type = "Insert"
    /\ spawnedUnder[queue[i].entity] # {}
    /\ queue[i].entity \in reserved
    /\ \A j \in 1..(i - 1) : queue[j].entity # queue[i].entity

\* C11: in every state of the queue, whichever builders appended to it, the
\* creation command of a child spawned on H is directly followed by the
\* command linking exactly that child to H, and every link command directly
\* follows the creation command of its child.
C11_LinkFollowsCreation ==
    \A i \in DOMAIN queue :
        /\ IsChildCreation(i) =>
               /\ i + 1 \in DOMAIN queue
               /\ queue[i + 1] =
                      PushChildrenCmd(queue[i].sn + 1,
                                      CHOOSE h \in spawnedUnder[queue[i].entity] : TRUE,
                                      <<queue[i].entity>>)
        /\ queue[i].type = "PushChildren" =>
               /\ i > 1
               /\ IsChildCreation(i - 1)
               /\ queue[i].children = <<queue[i - 1].entity>>

C11_Witness ==
    /\ Len(queue) = 4
    /\ IsChildCreation(2)
    /\ queue[3].type = "PushChildren"
    /\ queue[1].entity = queue[3].entity
    /\ queue[4].type = "Insert"
    /\ queue[4].entity = queue[3].entity
    /\ Len(stack) = 1

SpawnOps == {"root_spawn", "spawn"}

\* C12: a spawn leaves the builder it is called on, and every builder outside
\* it, in place with its context; the builder it returns is a further value,
\* bound to a handle that is not the placeholder, not the handle of the
\* builder called, not a handle the allocator handed out before (so none an
\* earlier spawn returned), and that is the handle of the creation command
\* the call queued.
C12_SpawnReturnsFreshBuilder ==
    [][(IsCall /\ Last(calls').op \in SpawnOps) =>
           LET c == Last(calls')
               new == c.ret.id
           IN /\ c.self = context(Top)
              /\ Len(stack') = Len(stack) + 1
              /\ SubSeq(stack', 1, Len(stack)) = stack
              /\ Last(stack') = ui_builder(c.ret)
              /\ c.ret.kind = "Entity"
              /\ new # PLACEHOLDER
              /\ c.op = "spawn" =>
                     new # c.self.id /\ id(stack'[Len(stack)]) = c.self.id
              /\ new \notin 1..(nextEntity - 1)
              /\ new \notin live \cup reserved
              /\ \A i \in DOMAIN calls :
                     calls[i].op \in SpawnOps => calls[i].ret.id # new
              /\ queue'[Len(queue) + 1] = InsertCmd(appended + 1, new, c.arg)
              /\ new \in reserved'
      ]_vars

C12_Witness ==
    /\ Len(calls) >= 2
    /\ calls[1].op = "root_spawn"
    /\ Last(calls).op = "spawn"
    /\ Len(stack) >= 2
    /\ Top = ui_builder(Last(calls).ret)
    /\ context(stack[Len(stack) - 1]) = Last(calls).self
    /\ id(Top) # id(stack[Len(stack) - 1])
    /\ id(Top) \in reserved
    /\ id(Top) # calls[1].ret.id

\* the step is taken by a builder: one is alive before or after it (the
\* runtime flushes only while no builder borrows the queue)
IsBuilderStep == stack # <<>> \/ stack' # <<>>

\* C13: a step taken by a builder leaves the materialized entities, their
\* components, their parents and their children as they are, applies no
\* command, and keeps every pending command at its position: the queue after
\* the step starts with the queue before it.
C13_BuilderOnlyAppends ==
    [][IsBuilderStep =>
           /\ live' = live
           /\ comps' = comps
           /\ parent' = parent
           /\ children' = children
           /\ applied' = applied
           /\ IsPrefix(queue, queue')
      ]_vars

C13_Witness ==
    /\ applied # <<>>
    /\ live # {}
    /\ Len(queue) >= 2
    /\ \E i \in DOMAIN queue :
           /\ queue[i].type = "Insert"
           /\ queue[i].entity \in live
           /\ comps[queue[i].entity] # queue[i].bundle @@ comps[queue[i].entity]
    /\ \E i \in DOMAIN queue : queue[i].type = "PushChildren"

\* what an event can be targeted at: an entity, or nothing (the placeholder
\* stands for "no target")
EventTargets == Handles \cup {PLACEHOLDER}

\* the entities a flush step creates on top of the reserved ones
CreatedByFlush == live' \ (live \cup reserved)

ObserveOps == {"observe", "observe_target", "observe_global"}

\* the calls of the batch with an operation of ops made on handle h
CallsOn(h, ops) ==
    {i \in DOMAIN calls : calls[i].op \in ops /\ calls[i].self = EntityCtx(h)}

HasObserver(cs, h) == "Observer" \in DOMAIN cs[h]

\* C15 as stated: when a batch is applied, every handle that observe,
\* observe_target or observe_global was called on holds the observer as a
\* component, and the flush creates no entity.
C15_StoredOnListener ==
    [][IsFlush =>
           /\ \A h \in Handles :
                  CallsOn(h, ObserveOps) # {} => HasObserver(comps', h)
           /\ CreatedByFlush = {}
      ]_vars

\* C15, amended: when a batch is applied, a handle that observe_target or
\* observe_global was called on holds the observer as a component and these
\* calls create no entity; every observe call on H creates one further
\* entity that holds its observer, restricted to H, and puts no observer
\* component on H.
C15_OnlyInsertsStoredOnListener ==
    [][IsFlush =>
           /\ \A h \in Handles :
                  /\ CallsOn(h, ObserverInserts) # {} => HasObserver(comps', h)
                  /\ (CallsOn(h, ObserverInserts) = {} /\ h \notin CreatedByFlush) =>
                         (HasObserver(comps', h) <=> HasObserver(comps, h))
                  /\ Cardinality({o \in CreatedByFlush :
                                      /\ HasObserver(comps', o)
                                      /\ comps'[o]["Observer"].entities = {h}})
                         = Cardinality(CallsOn(h, {"observe"}))
           /\ \A o \in CreatedByFlush :
                  \E h \in Handles :
                      /\ CallsOn(h, {"observe"}) # {}
                      /\ comps'[o] =
                             ObserverBundle([system |-> calls[Max(CallsOn(h, {"observe"}))].arg,
                                             entities |-> {h}])
      ]_vars

C15_Witness ==
    /\ Flushed
    /\ \E i \in DOMAIN calls : \E j \in DOMAIN calls : \E o \in live :
           LET h == calls[i].self.id
           IN /\ calls[i].op = "observe"
              /\ calls[j].op = "root_spawn"
              /\ calls[j].ret.id = h
              /\ o # h
              /\ ~HasObserver(comps, h)
              /\ comps[o] = ObserverBundle([system |-> calls[i].arg,
                                            entities |-> {h}])
              /\ parent[o] = {}
              /\ live = {h, o}

\* the queued insert commands that put an observer component on h
ObserverCmds(h) ==
    {i \in DOMAIN queue :
         /\ queue[i].type = "Insert"
         /\ queue[i].entity = h
         /\ "Observer" \in DOMAIN queue[i].bundle}

\* the component kinds of an entity that hold an observer
ObserverKinds(cs, h) ==
    {k \in DOMAIN cs[h] : k \notin DataKinds \cup {"Name"}}

ScopedAccessorOps == {"entity_commands", "style", "style_unchecked"}

\* the step constructs a builder from the queue
IsUiBuilder == stack = <<>> /\ stack' # <<>>

\* C17: ui_builder(context) and the accessors context(), commands(), id(),
\* entity_commands(), style() and style_unchecked() leave the queue and the
\* serial numbers as they are (and with them the world and the builders);
\* the accessor entity_commands(), style() or style_unchecked() hands out on
\* a builder bound to H is an accessor of H.
C17_AccessorsAppendNothing ==
    [][/\ IsUiBuilder =>
              /\ queue' = queue /\ appended' = appended
              /\ world' = world /\ applied' = applied
       /\ last'.op \in AccessorOps =>
              /\ queue' = queue /\ appended' = appended
              /\ world' = world /\ applied' = applied
              /\ stack' = stack /\ calls' = calls
              /\ last'.self = context(Top)
              /\ last'.op \in ScopedAccessorOps =>
                     last'.ret = EntityCtx(id(Top))
      ]_vars

C17_Witness ==
    /\ last.op = "commands"
    /\ last.self.kind = "Entity"
    /\ last.self.id \in reserved
    /\ Len(queue) = 3
    /\ Len(stack) = 2

====
